---- MODULE Spec2Model ----
(***************************************************************************)
(* A model of makedist.py, the release-packaging script of Lectrote: it    *)
(* reads package.json, selects the platforms to work on, stages the        *)
(* application files into tempapp, and then runs the bundler               *)
(* (npm run package-<platform>) and the archiver (zip / appdmg) once per   *)
(* selected platform.                                                      *)
(*                                                                         *)
(* Strings the script computes with (platform identifiers, filters, the    *)
(* product name and version, bundle directories, archive names) are        *)
(* sequences of one-character strings, so that Python's `in`, startswith,  *)
(* replace, slicing and os.path.split are computed as Python computes      *)
(* them. Paths the script only passes around (the staged files) are TLA+   *)
(* strings.                                                                *)
(***************************************************************************)
EXTENDS Integers, Sequences, FiniteSets, TLC

\* The longest filter list (positional command-line arguments) explored.
MaxArgs == 2

-----------------------------------------------------------------------------
(* Python's string operations, on sequences of characters.                 *)

\* sub in s
Contains(sub, s) ==
    \E k \in 0..(Len(s) - Len(sub)) : SubSeq(s, k + 1, k + Len(sub)) = sub

\* s.startswith(prefix)
StartsWith(s, prefix) ==
    /\ Len(prefix) <= Len(s)
    /\ SubSeq(s, 1, Len(prefix)) = prefix

\* s[n:]
SliceFrom(s, n) == SubSeq(s, n + 1, Len(s))

\* s.replace(old, new), old non-empty: every non-overlapping occurrence,
\* found left to right.
RECURSIVE Replace(_, _, _)
Replace(s, old, new) ==
    IF Len(s) < Len(old) THEN s
    ELSE IF SubSeq(s, 1, Len(old)) = old
         THEN new \o Replace(SliceFrom(s, Len(old)), old, new)
         ELSE <<Head(s)>> \o Replace(Tail(s), old, new)

\* The index of the last "/" of p, 0 when it has none (p.rfind('/') + 1).
LastSlash(p) ==
    LET at == {k \in 1..Len(p) : p[k] = "/"}
    IN  IF at = {} THEN 0 ELSE CHOOSE k \in at : \A j \in at : j <= k

\* s.rstrip('/')
RECURSIVE RStripSlash(_)
RStripSlash(s) ==
    IF s # <<>> /\ s[Len(s)] = "/" THEN RStripSlash(SubSeq(s, 1, Len(s) - 1))
    ELSE s

\* os.path.split(p) (posixpath): <<head, tail>>; the head loses its trailing
\* slashes unless it consists of slashes only.
PathSplit(p) ==
    LET k    == LastSlash(p)
        head == SubSeq(p, 1, k)
        tail == SliceFrom(p, k)
    IN  IF head # <<>> /\ \E j \in 1..Len(head) : head[j] # "/"
        THEN <<RStripSlash(head), tail>>
        ELSE <<head, tail>>

-----------------------------------------------------------------------------
(* The script's constants.                                                 *)

darwin == <<"d","a","r","w","i","n">>
macos  == <<"m","a","c","o","s">>
win32  == <<"w","i","n","3","2">>
linux  == <<"l","i","n","u","x">>
x64    == <<"x","6","4">>
ia32   == <<"i","a","3","2">>
dash   == <<"-">>
dist   == <<"d","i","s","t">>
slash  == <<"/">>

all_packages ==
    << darwin \o dash \o x64,
       linux  \o dash \o ia32,
       linux  \o dash \o x64,
       win32  \o dash \o ia32,
       win32  \o dash \o x64 >>

files ==
    << "./package.json", "./main.js", "./apphooks.js", "./play.html",
       "./prefs.html", "./prefs.js", "./about.html", "./if-card.html",
       "./fonts.css", "./el-glkote.css", "./icon-128.png", "./docicon.ico",
       "./quixe/lib/elkote.min.js", "./quixe/lib/jquery-1.11.2.min.js",
       "./quixe/lib/quixe.min.js", "./quixe/media/waiting.gif", "./font" >>

rootfiles == << "./LICENSE", "./LICENSES-FONTS.txt" >>

-----------------------------------------------------------------------------
(* The inputs of a run: the command line, package.json and the working     *)
(* tree the run starts in.                                                 *)

\* The filters tried on the command line: ones that match one, several or no
\* platform, and the empty string, which is a substring of every identifier.
Filters == { win32, x64, linux, <<"a","r","m">>, <<>> }

RECURSIVE SeqsUpTo(_, _)
SeqsUpTo(S, n) ==
    IF n = 0 THEN { <<>> }
    ELSE LET shorter == SeqsUpTo(S, n - 1)
         IN  shorter \cup { Append(q, e) : q \in {r \in shorter : Len(r) = n - 1}, e \in S }

App == <<"A","p","p">>
v10 == <<"1",".","0">>

\* The package.json files tried: well-formed ones (a plain name, a name and a
\* version that contain "darwin", a name with a path separator, an empty
\* name and an empty version), and the ways the file can fail to yield the
\* two keys.
PkgOk(name, version) ==
    [state |-> "ok", keys |-> {"version", "productName"},
     productName |-> name, version |-> version]

ManifestList ==
    << PkgOk(App, v10),
       PkgOk(darwin, v10),
       PkgOk(App, darwin),
       PkgOk(<<"m","y","/","A","p","p">>, v10),
       PkgOk(<<>>, v10),
       PkgOk(App, <<>>),
       [PkgOk(App, v10) EXCEPT !.state = "missing"],
       [PkgOk(App, v10) EXCEPT !.state = "malformed"],
       [PkgOk(App, v10) EXCEPT !.keys = {"productName"}],
       [PkgOk(App, v10) EXCEPT !.keys = {"version"}] >>

Manifests == { ManifestList[k] : k \in 1..Len(ManifestList) }

\* A variable the script has not assigned yet.
Unbound == << "<unbound>" >>

\* The children of the source tree's ./font directory (os.listdir).
FontFiles == { "Lora.ttf", "Lora.css" }

Platforms == { all_packages[k] : k \in 1..Len(all_packages) }

\* A bundle output directory dist/<name>-<platform>: whether it exists,
\* whether it holds the bundler's version file and the overlaid root files.
NoBundle    == [exists |-> FALSE, version |-> FALSE, rootfiles |-> FALSE]
BuiltBundle == [exists |-> TRUE,  version |-> FALSE, rootfiles |-> TRUE]

\* The working tree a run starts in is a fresh checkout (no tempapp, no
\* bundles) or the one an earlier run left: bundles built and stripped of
\* their version file, and a tempapp holding an older main.js and a file
\* that is no longer staged.
StaleTree == [p \in {"tempapp/./main.js", "tempapp/old.js"} |-> "stale"]

VARIABLES
    opts,             \* the parsed mode flags (optparse)
    args,             \* the positional arguments: the platform filters
    pkgfile,          \* package.json as found in the working directory
    product_name,     \* module globals of the script
    product_version,
    packages,
    pc,               \* the statement the script is at
    i,                \* the position of the running for loop in packages
    err,              \* the exception that ended the run, "none" when none
    dirs,             \* the directories os.makedirs has been asked for
    tempapp,          \* the staged files: path -> the source file copied there
    bundle,           \* the bundle output directory of each platform
    zarg,             \* the arguments of the latest makezip call
    calls,            \* the subprocess.call invocations, in order
    rc,               \* the status the latest subprocess.call returned
    cwd               \* the working directory of the script's own process

vars == << opts, args, pkgfile, product_name, product_version, packages, pc, i,
           err, dirs, tempapp, bundle, zarg, calls, rc, cwd >>

\* makezip has not been called.
NoArg == [dir |-> Unbound, unwrapped |-> FALSE]

Init ==
    /\ opts \in [makedist : BOOLEAN, makezip : BOOLEAN, makenothing : BOOLEAN]
    /\ args \in SeqsUpTo(Filters, MaxArgs)
    /\ \E k \in 1..Len(ManifestList) : pkgfile = ManifestList[k]
    /\ product_name = Unbound
    /\ product_version = Unbound
    /\ packages = <<>>
    /\ pc = "manifest"
    /\ i = 0
    /\ err = "none"
    /\ dirs = {}
    /\ \E rerun \in BOOLEAN :
          /\ tempapp = IF rerun THEN StaleTree ELSE << >>
          /\ bundle = [p \in Platforms |-> IF rerun THEN BuiltBundle ELSE NoBundle]
    /\ zarg = NoArg
    /\ calls = <<>>
    /\ rc = 0
    /\ cwd = <<".">>

\* The manifest read with pkg.get(...) for pkg[...]: a missing key yields
\* None and the script goes on.
ReadManifest_Get ==
    /\ pc = "manifest"
    /\ IF pkgfile.state = "missing"
       THEN /\ err' = "FileNotFoundError"
            /\ pc' = "error"
            /\ UNCHANGED << product_name, product_version >>
       ELSE IF pkgfile.state = "malformed"
       THEN /\ err' = "JSONDecodeError"
            /\ pc' = "error"
            /\ UNCHANGED << product_name, product_version >>
       ELSE /\ product_version' =
                  IF "version" \in pkgfile.keys THEN pkgfile.version ELSE << "None" >>
            /\ product_name' =
                  IF "productName" \in pkgfile.keys THEN pkgfile.productName ELSE << "None" >>
            /\ pc' = "select"
            /\ UNCHANGED err
    /\ UNCHANGED << cwd, opts, args, pkgfile, packages, i, dirs, tempapp, bundle, zarg, calls, rc >>

-----------------------------------------------------------------------------
(* Lines 119-127: read the version and the product name out of             *)
(* package.json. open, json.load and the two subscripts raise in turn.     *)
ReadManifest ==
    /\ pc = "manifest"
    /\ IF pkgfile.state = "missing"
       THEN /\ err' = "FileNotFoundError"
            /\ pc' = "error"
            /\ UNCHANGED << product_name, product_version >>
       ELSE IF pkgfile.state = "malformed"
       THEN /\ err' = "JSONDecodeError"
            /\ pc' = "error"
            /\ UNCHANGED << product_name, product_version >>
       ELSE IF "version" \notin pkgfile.keys
       THEN /\ err' = "KeyError"
            /\ pc' = "error"
            /\ UNCHANGED << product_name, product_version >>
       ELSE IF "productName" \notin pkgfile.keys
       THEN /\ err' = "KeyError"
            /\ pc' = "error"
            /\ product_version' = pkgfile.version
            /\ UNCHANGED product_name
       ELSE /\ product_version' = pkgfile.version
            /\ product_name' = pkgfile.productName
            /\ pc' = "select"
            /\ UNCHANGED err
    /\ UNCHANGED << cwd, opts, args, pkgfile, packages, i, dirs, tempapp, bundle, zarg, calls, rc >>

\* Lines 136-140: the platforms of all_packages from position k on that
\* contain some filter; the break leaves the inner loop at the first match.
RECURSIVE SelectFrom(_, _)
SelectFrom(k, F) ==
    IF k > Len(all_packages) THEN <<>>
    ELSE (IF \E j \in 1..Len(F) : Contains(F[j], all_packages[k])
          THEN << all_packages[k] >> ELSE <<>>) \o SelectFrom(k + 1, F)

\* The inner loop without its break: a platform is appended once for every
\* filter it contains.
RECURSIVE SelectFromNoBreak(_, _, _)
SelectFromNoBreak(k, j, F) ==
    IF k > Len(all_packages) THEN <<>>
    ELSE IF j > Len(F) THEN SelectFromNoBreak(k + 1, 1, F)
    ELSE (IF Contains(F[j], all_packages[k]) THEN << all_packages[k] >> ELSE <<>>)
         \o SelectFromNoBreak(k, j + 1, F)

Select_NoBreak(F) == IF F = <<>> THEN all_packages ELSE SelectFromNoBreak(1, 1, F)

\* Lines 132-140.
Select(F) == IF F = <<>> THEN all_packages ELSE SelectFrom(1, F)

\* The selection without the check of lines 142-143.
SelectPackages_NoCheck ==
    /\ pc = "select"
    /\ packages' = Select(args)
    /\ pc' = "stage"
    /\ UNCHANGED << cwd, opts, args, pkgfile, product_name, product_version, i, err, dirs,
                    tempapp, bundle, zarg, calls, rc >>

\* Lines 132-143: decide what distributions to work on, or give up.
SelectPackages ==
    /\ pc = "select"
    /\ packages' = Select(args)
    /\ IF packages' = <<>>
       THEN err' = "no packages selected" /\ pc' = "error"
       ELSE pc' = "stage" /\ UNCHANGED err
    /\ UNCHANGED << cwd, opts, args, pkgfile, product_name, product_version, i, dirs,
                    tempapp, bundle, zarg, calls, rc >>

-----------------------------------------------------------------------------
(* Lines 65-84: install, the file stager.                                  *)

\* os.path.join(a, b) for a relative b.
Join(a, b) == a \o "/" \o b

\* os.path.isdir(filename) in the source tree: ./font is its one directory.
SrcIsDir(filename) == filename = "./font"

\* The copies install makes, as <<destination, source>> pairs: a file goes
\* to the same relative path, a directory's children go one level down.
InstallCopies(appdir) ==
    UNION { IF ~SrcIsDir(files[k])
            THEN { << Join(appdir, files[k]), files[k] >> }
            ELSE { << Join(Join(appdir, files[k]), sub), Join(files[k], sub) >> :
                       sub \in FontFiles }
          : k \in 1..Len(files) }

\* The directories install makes sure of.
InstallDirs(appdir) ==
    { appdir, Join(appdir, "quixe"), Join(Join(appdir, "quixe"), "lib"),
      Join(Join(appdir, "quixe"), "media") }
    \cup { Join(appdir, files[k]) : k \in {j \in 1..Len(files) : SrcIsDir(files[j])} }

\* install copying a directory the way cp -r does: once the destination
\* directory exists, the children land one level deeper.
Install_CpR(resourcedir, d, t) ==
    IF resourcedir \notin d
    THEN [raised |-> TRUE, dirs |-> d, tree |-> t]
    ELSE LET nested == { << Join(Join(Join(resourcedir, files[k]), "font"), sub),
                            Join(files[k], sub) >> :
                            k \in {j \in 1..Len(files) :
                                      SrcIsDir(files[j]) /\ Join(resourcedir, files[j]) \in d},
                            sub \in FontFiles }
             copies == IF nested = {} THEN InstallCopies(resourcedir)
                       ELSE nested \cup { << Join(resourcedir, files[k]), files[k] >> :
                                             k \in {j \in 1..Len(files) : ~SrcIsDir(files[j])} }
             dsts   == { c[1] : c \in copies }
         IN  [raised |-> FALSE,
              dirs   |-> d \cup InstallDirs(resourcedir),
              tree   |-> [p \in DOMAIN t \cup dsts |->
                             IF p \in dsts
                             THEN (CHOOSE c \in copies : c[1] = p)[2]
                             ELSE t[p]]]

\* install(resourcedir) on the directories d and the tree t: it raises when
\* resourcedir is no directory, and overwrites what it copies.
Install(resourcedir, d, t) ==
    IF resourcedir \notin d
    THEN [raised |-> TRUE, dirs |-> d, tree |-> t]
    ELSE LET copies == InstallCopies(resourcedir)
             dsts   == { c[1] : c \in copies }
         IN  [raised |-> FALSE,
              dirs   |-> d \cup InstallDirs(resourcedir),
              tree   |-> [p \in DOMAIN t \cup dsts |->
                             IF p \in dsts
                             THEN (CHOOSE c \in copies : c[1] = p)[2]
                             ELSE t[p]]]

\* Lines 145-148: make tempapp, stage into it, make dist.
Stage ==
    /\ pc = "stage"
    /\ LET r == Install("tempapp", dirs \cup {"tempapp"}, tempapp)
       IN  IF r.raised
           THEN /\ dirs' = r.dirs
                /\ tempapp' = r.tree
                /\ err' = "path does not exist"
                /\ pc' = "error"
                /\ UNCHANGED i
           ELSE /\ dirs' = r.dirs \cup {"dist"}
                /\ tempapp' = r.tree
                /\ pc' = "build"
                /\ i' = 1
                /\ UNCHANGED err
    /\ UNCHANGED << cwd, opts, args, pkgfile, product_name, product_version, packages,
                    bundle, zarg, calls, rc >>

-----------------------------------------------------------------------------
(* Lines 150-160: the two phases and what they call.                       *)

\* Line 150.
doall == ~(opts.makedist \/ opts.makezip \/ opts.makenothing)

\* Line 152: whether the build loop runs.
BuildEnabled == doall \/ opts.makedist

\* Line 157: whether the zip loop runs.
ZipEnabled == doall \/ opts.makezip

\* The bundle directory written 'dist/%s_%s'.
Dest_Underscore(name, pack) == dist \o slash \o name \o <<"_">> \o pack

\* Lines 154 and 159: 'dist/%s-%s' % (product_name, pack).
Dest(name, pack) == dist \o slash \o name \o dash \o pack

\* A command with no cd in it (cd |-> <<>> is a cd to the empty path).
NoCd == << "<no cd>" >>

\* One subprocess.call: the tool run, the platform the loop is at, and the
\* shell command's parts: the directory it changes to, the file rm -f is
\* given, the archive the tool is to write, and the tool's other argument.
Call(tool, pack, cd, rm, out, arg) ==
    [tool |-> tool, pack |-> pack, cd |-> cd, rm |-> rm, out |-> out, arg |-> arg]

\* What the bundler may leave in its output directory: a full bundle with
\* its version file, a bundle without one, or nothing new.
BundlerEffects == {"full", "noversion", "unchanged"}

AfterBundler(b, effect) ==
    IF effect = "full" THEN [exists |-> TRUE, version |-> TRUE, rootfiles |-> FALSE]
    ELSE IF effect = "noversion" THEN [exists |-> TRUE, version |-> FALSE, rootfiles |-> FALSE]
    ELSE b

\* Lines 87-93: builddir after its subprocess.call has left the output
\* directory as b: copy the root files in, unlink the version file.
\* shutil.copyfile raises when the directory is missing, os.unlink when the
\* file is.
Builddir(b) ==
    IF ~b.exists
    THEN [raised |-> TRUE, bundle |-> b]
    ELSE IF ~b.version
    THEN [raised |-> TRUE, bundle |-> [b EXCEPT !.rootfiles = TRUE]]
    ELSE [raised |-> FALSE, bundle |-> [b EXCEPT !.rootfiles = TRUE, !.version = FALSE]]

\* Lines 152-155: one round of the build loop.
Build ==
    /\ pc = "build"
    /\ BuildEnabled
    /\ i <= Len(packages)
    /\ \E status \in {0, 1}, effect \in BundlerEffects :
          LET pack == packages[i]
              r    == Builddir(AfterBundler(bundle[pack], effect))
          IN  /\ calls' = Append(calls, Call("npm", pack, NoCd, <<>>, <<>>, pack))
              /\ rc' = status
              /\ bundle' = [bundle EXCEPT ![pack] = r.bundle]
              /\ IF r.raised
                 THEN err' = "FileNotFoundError" /\ pc' = "error" /\ UNCHANGED i
                 ELSE i' = i + 1 /\ UNCHANGED << err, pc >>
    /\ UNCHANGED << cwd, opts, args, pkgfile, product_name, product_version, packages,
                    dirs, tempapp, zarg >>

\* Lines 152-157: the build loop is over, or was not asked for.
BuildDone ==
    /\ pc = "build"
    /\ ~BuildEnabled \/ i > Len(packages)
    /\ pc' = "zip"
    /\ i' = 1
    /\ UNCHANGED << cwd, opts, args, pkgfile, product_name, product_version, packages,
                    err, dirs, tempapp, bundle, zarg, calls, rc >>

dmg == <<".","d","m","g">>
zip == <<".","z","i","p">>
up  == <<".",".","/">>

\* The arguments the tools get besides the archive.
DmgSpec == << "resources/pack-dmg-spec.json" >>
Star    == << "*" >>

\* No subprocess.
NoCall == [tool |-> "none", cd |-> NoCd, rm |-> <<>>, out |-> <<>>, arg |-> <<>>]

\* Line 102: which archive names take the disk-image branch.
IsDarwin(zipfile) == Contains(darwin, zipfile)

\* Line 103: the archive name on the disk-image branch.
DisplayName(zipfile) == Replace(zipfile, darwin, macos)

\* Lines 100-117: the shell command makezip runs once the prefix fits.
MakezipCommand(name, version, dir, unwrapped) ==
    LET prefix  == name \o dash
        val     == PathSplit(dir)[2]
        zipfile == name \o dash \o version \o dash \o SliceFrom(val, Len(prefix))
    IN  IF IsDarwin(zipfile)
        THEN LET target == dist \o slash \o DisplayName(zipfile) \o dmg
             IN  [tool |-> "appdmg", cd |-> NoCd, rm |-> target,
                  out |-> target, arg |-> DmgSpec]
        ELSE IF unwrapped
        THEN LET target == up \o zipfile \o zip
             IN  [tool |-> "zip", cd |-> dir, rm |-> target,
                  out |-> target, arg |-> Star]
        ELSE LET subdir == PathSplit(dir)[2]
                 topdir == PathSplit(dir)[1]
                 target == zipfile \o zip
             IN  [tool |-> "zip", cd |-> topdir, rm |-> target,
                  out |-> target, arg |-> subdir]

\* makezip without the check of lines 98-99.
Makezip_NoCheck(name, version, dir, unwrapped) ==
    [raised |-> FALSE, call |-> MakezipCommand(name, version, dir, unwrapped)]

\* Lines 95-117: makezip(dir, unwrapped) with the globals product_name and
\* product_version: whether it raises, and the shell command it runs.
Makezip(name, version, dir, unwrapped) ==
    LET prefix == name \o dash
        val    == PathSplit(dir)[2]
    IN  IF ~StartsWith(val, prefix)
        THEN [raised |-> TRUE, call |-> NoCall]
        ELSE [raised |-> FALSE, call |-> MakezipCommand(name, version, dir, unwrapped)]

\* Line 160: unwrapped=('win32' in pack).
Unwrapped(pack) == Contains(win32, pack)

\* makezip running its command the way subprocess.check_call does: a
\* non-zero exit status raises.
CallMakezip_CheckStatus(d, u, pack) ==
    LET r == Makezip(product_name, product_version, d, u)
    IN  /\ zarg' = [dir |-> d, unwrapped |-> u]
        /\ IF r.raised
           THEN /\ err' = "path does not have the prefix"
                /\ UNCHANGED << calls, rc >>
           ELSE /\ calls' = Append(calls, Call(r.call.tool, pack, r.call.cd, r.call.rm,
                                               r.call.out, r.call.arg))
                /\ rc' \in {0, 1}
                /\ err' = IF rc' = 1 THEN "CalledProcessError" ELSE err
        /\ UNCHANGED cwd

\* makezip changing directory with os.chdir in the script's own process
\* where the shell command has its cd.
CallMakezip_Chdir(d, u, pack) ==
    LET r == Makezip(product_name, product_version, d, u)
    IN  /\ zarg' = [dir |-> d, unwrapped |-> u]
        /\ IF r.raised
           THEN /\ err' = "path does not have the prefix"
                /\ UNCHANGED << calls, rc, cwd >>
           ELSE /\ calls' = Append(calls, Call(r.call.tool, pack, r.call.cd, r.call.rm,
                                               r.call.out, r.call.arg))
                /\ rc' \in {0, 1}
                /\ cwd' = IF r.call.cd = NoCd THEN cwd ELSE r.call.cd
                /\ UNCHANGED err

\* makezip(d, u) called with the loop at pack: the subprocess is run and
\* makezip returns, or the exception of line 99 ends the run.  The cd of
\* the shell command happens in the subprocess: the script's own working
\* directory stays.
CallMakezip(d, u, pack) ==
    LET r == Makezip(product_name, product_version, d, u)
    IN  /\ zarg' = [dir |-> d, unwrapped |-> u]
        /\ IF r.raised
           THEN /\ err' = "path does not have the prefix"
                /\ UNCHANGED << calls, rc >>
           ELSE /\ calls' = Append(calls, Call(r.call.tool, pack, r.call.cd, r.call.rm,
                                               r.call.out, r.call.arg))
                /\ rc' \in {0, 1}
                /\ UNCHANGED err
        /\ UNCHANGED cwd

\* Lines 157-160: one round of the zip loop.
Zip ==
    /\ pc = "zip"
    /\ ZipEnabled
    /\ i <= Len(packages)
    /\ CallMakezip(Dest(product_name, packages[i]), Unwrapped(packages[i]), packages[i])
    /\ IF err' # "none"
       THEN pc' = "error" /\ UNCHANGED i
       ELSE i' = i + 1 /\ UNCHANGED pc
    /\ UNCHANGED << opts, args, pkgfile, product_name, product_version, packages,
                    dirs, tempapp, bundle >>

\* The script with the build loop after the zip loop as well.
ZipDone_Rebuild ==
    /\ pc = "zip"
    /\ ~ZipEnabled \/ i > Len(packages)
    /\ pc' = IF BuildEnabled /\ ZipEnabled THEN "build" ELSE "done"
    /\ i' = 1
    /\ UNCHANGED << cwd, opts, args, pkgfile, product_name, product_version, packages,
                    err, dirs, tempapp, bundle, zarg, calls, rc >>

\* Line 160 on: the zip loop is over, or was not asked for, and the script
\* ends.
ZipDone ==
    /\ pc = "zip"
    /\ ~ZipEnabled \/ i > Len(packages)
    /\ pc' = "done"
    /\ UNCHANGED << cwd, opts, args, pkgfile, product_name, product_version, packages,
                    i, err, dirs, tempapp, bundle, zarg, calls, rc >>

Next ==
    \/ ReadManifest
    \/ SelectPackages
    \/ Stage
    \/ Build
    \/ BuildDone
    \/ Zip
    \/ ZipDone

Spec == Init /\ [][Next]_vars

-----------------------------------------------------------------------------
(* makezip called on its own, with any directory: the product name and     *)
(* version are set as the script's globals, and the directory is one the   *)
(* name fits, one it does not fit, one with no directory part, one with a  *)
(* trailing slash.                                                         *)

Foo == <<"F","o","o">>
Bar == <<"B","a","r">>
v21 == <<"2",".","1">>

TestDirs ==
    { Dest(Foo, all_packages[1]),
      Dest(Foo, all_packages[3]),
      Dest(Foo, all_packages[4]),
      Dest(Bar, all_packages[5]),
      Bar \o dash \o all_packages[5],
      dist \o slash \o Foo,
      dist \o slash \o <<"x">> \o Foo \o dash \o all_packages[2],
      Dest(Foo, all_packages[3]) \o slash }

InitMakezip ==
    /\ opts = [makedist |-> FALSE, makezip |-> TRUE, makenothing |-> FALSE]
    /\ args = <<>>
    /\ \E name \in {Foo, Bar, App}, version \in {v21, v10} :
          /\ pkgfile = PkgOk(name, version)
          /\ product_name = name
          /\ product_version = version
    /\ packages = <<>>
    /\ pc = "makezip"
    /\ i = 0
    /\ err = "none"
    /\ dirs = {"dist"}
    /\ tempapp = << >>
    /\ bundle = [p \in Platforms |-> BuiltBundle]
    /\ zarg \in [dir : TestDirs, unwrapped : BOOLEAN]
    /\ calls = <<>>
    /\ rc = 0
    /\ cwd = <<".">>

\* Lines 95-117: the one call.
MakezipCall ==
    /\ pc = "makezip"
    /\ CallMakezip(zarg.dir, zarg.unwrapped, PathSplit(zarg.dir)[2])
    /\ pc' = IF err' # "none" THEN "error" ELSE "done"
    /\ UNCHANGED << opts, args, pkgfile, product_name, product_version, packages,
                    i, dirs, tempapp, bundle >>

NextMakezip == MakezipCall

SpecMakezip == InitMakezip /\ [][NextMakezip]_vars

-----------------------------------------------------------------------------
(* install called on its own, over and over on the same destination, with *)
(* the source tree as it is: the destination is missing, empty, or holds  *)
(* older copies of staged files and files that are staged no longer.      *)

\* How often install is run on the destination.
MaxInstalls == 2

PriorPaths ==
    { "tempapp/./main.js", "tempapp/./font/Lora.ttf", "tempapp/./quixe/lib/quixe.min.js",
      "tempapp/old.js", "tempapp/./font/Old.ttf", "tempapp/quixe/lib/old.min.js",
      "tempapp/./package.json" }

InitInstall ==
    /\ opts = [makedist |-> FALSE, makezip |-> FALSE, makenothing |-> TRUE]
    /\ args = <<>>
    /\ pkgfile = PkgOk(App, v10)
    /\ product_name = App
    /\ product_version = v10
    /\ packages = all_packages
    /\ pc = "install"
    /\ i = 0
    /\ err = "none"
    /\ \/ dirs = {} /\ tempapp = << >>
       \/ /\ dirs = {"tempapp"}
          /\ \E S \in SUBSET PriorPaths : tempapp = [p \in S |-> "stale"]
    /\ bundle = [p \in Platforms |-> NoBundle]
    /\ zarg = NoArg
    /\ calls = <<>>
    /\ rc = 0
    /\ cwd = <<".">>

\* Lines 65-84: one run of install('tempapp').
InstallRun ==
    /\ pc = "install"
    /\ i < MaxInstalls
    /\ LET r == Install("tempapp", dirs, tempapp)
       IN  IF r.raised
           THEN /\ err' = "path does not exist"
                /\ pc' = "error"
                /\ UNCHANGED << i, dirs, tempapp >>
           ELSE /\ dirs' = r.dirs
                /\ tempapp' = r.tree
                /\ i' = i + 1
                /\ UNCHANGED << err, pc >>
    /\ UNCHANGED << cwd, opts, args, pkgfile, product_name, product_version, packages,
                    bundle, zarg, calls, rc >>

NextInstall == InstallRun

SpecInstall == InitInstall /\ [][NextInstall]_vars

-----------------------------------------------------------------------------
(* What the claims speak of.                                               *)

\* a occurs in b at some position.
Occurs(a, b) ==
    \E u \in 1..(Len(b) + 1) :
        \A t \in 1..Len(a) : u + t - 1 <= Len(b) /\ b[u + t - 1] = a[t]

\* The position of platform p in all_packages.
PosInL(p) == CHOOSE k \in 1..Len(all_packages) : all_packages[k] = p

\* The manifest was read and the selection loop has run.
SelectionMade == product_name # Unbound /\ pc \notin {"manifest", "select", "makezip"}

\* The run is over.
Ended == pc \in {"done", "error"}

\* The platforms of the calls of a kind, in call order.
RECURSIVE PacksOf(_, _)
PacksOf(cs, tools) ==
    IF cs = <<>> THEN <<>>
    ELSE (IF Head(cs).tool \in tools THEN << Head(cs).pack >> ELSE <<>>)
         \o PacksOf(Tail(cs), tools)

BundlerPacks  == PacksOf(calls, {"npm"})
ArchiverPacks == PacksOf(calls, {"zip", "appdmg"})

\* Only files left by an earlier run are in tempapp: nothing was copied.
NothingCopied == \A p \in DOMAIN tempapp : tempapp[p] = "stale"

\* Staging has happened: tempapp and dist were made and every listed file
\* is in place.
Staged ==
    /\ {"tempapp", "dist"} \subseteq dirs
    /\ \A c \in InstallCopies("tempapp") :
          c[1] \in DOMAIN tempapp /\ tempapp[c[1]] = c[2]

(* C1: once the selection loop has run, the selected list holds exactly   *)
(* the platforms of all_packages that contain at least one filter as a    *)
(* substring, in the order of all_packages and each at most once; with no *)
(* filter it is all_packages.                                             *)
C1_Selection ==
    SelectionMade =>
        /\ \A j \in 1..Len(packages) : packages[j] \in Platforms
        /\ \A p \in Platforms :
              (\E j \in 1..Len(packages) : packages[j] = p)
                  <=> (args = <<>> \/ \E f \in 1..Len(args) : Occurs(args[f], p))
        /\ \A j1, j2 \in 1..Len(packages) :
              j1 < j2 => PosInL(packages[j1]) < PosInL(packages[j2])
        /\ args = <<>> => packages = all_packages

\* Two filters that overlap on win32-x64, given in the other order than the
\* platforms they select.
C1_Witness ==
    /\ SelectionMade
    /\ args = << win32, x64 >>
    /\ packages = << all_packages[1], all_packages[3], all_packages[4], all_packages[5] >>

(* C2: when the filters are not empty and no platform contains any of     *)
(* them, the run ends with the error "no packages selected" before        *)
(* staging: no directory is made, no file is copied and no subprocess is  *)
(* called, whatever the mode flags.                                       *)
C2_NoMatchAborts ==
    (args # <<>> /\ \A p \in Platforms : \A f \in 1..Len(args) : ~Occurs(args[f], p)) =>
        /\ pc \in {"manifest", "select", "error"}
        /\ (pc = "error" /\ product_name # Unbound) => err = "no packages selected"
        /\ dirs = {}
        /\ NothingCopied
        /\ calls = <<>>

\* A run with the default mode (build and zip) and a filter no platform
\* contains, stopped at the selection.
C2_Witness ==
    /\ pc = "error"
    /\ err = "no packages selected"
    /\ args = << <<"a","r","m">> >>
    /\ doall
    /\ packages = <<>>

\* The flags given are exactly these.
OnlyFlags(b, z, n) == opts = [makedist |-> b, makezip |-> z, makenothing |-> n]

IsArchiver(c) == c.tool \in {"zip", "appdmg"}

(* C3: with no mode flag the run calls the bundler for every selected     *)
(* platform and then the archiver for every selected platform; with only  *)
(* --none it stages and calls neither.                                    *)
C3_DefaultRunsBoth ==
    (Ended /\ SelectionMade /\ packages # <<>>) =>
        /\ OnlyFlags(FALSE, FALSE, FALSE) =>
              /\ BundlerPacks = packages
              /\ ArchiverPacks = packages
              /\ \A k \in 1..Len(packages) : calls[k].tool = "npm"
        /\ OnlyFlags(FALSE, FALSE, TRUE) => (Staged /\ calls = <<>>)

(* C4: whenever --none is given, with or without --build and --zip, no    *)
(* bundler and no archiver subprocess is called.                          *)
C4_NoneSuppresses == opts.makenothing => calls = <<>>

(* C5: with only --build the run calls the bundler for each selected      *)
(* platform and never the archiver; with only --zip it calls the archiver *)
(* for each selected platform and never the bundler; in every mode the    *)
(* files are staged and dist is made.                                     *)
C5_SingleModes ==
    (Ended /\ SelectionMade /\ packages # <<>>) =>
        /\ Staged
        /\ OnlyFlags(TRUE, FALSE, FALSE) =>
              (BundlerPacks = packages /\ ArchiverPacks = <<>>)
        /\ OnlyFlags(FALSE, TRUE, FALSE) =>
              (ArchiverPacks = packages /\ BundlerPacks = <<>>)

\* The phases in their order.
Rank(p) ==
    CASE p = "manifest" -> 1
      [] p = "select"   -> 2
      [] p = "stage"    -> 3
      [] p = "build"    -> 4
      [] p = "zip"      -> 5
      [] OTHER          -> 6

(* C6: the phases come in the order manifest read, selection, staging,    *)
(* build, archive and none is entered twice: every step moves on in that  *)
(* order, the name and version are assigned by the manifest read alone,   *)
(* the selection by the selection alone, the staging tree and the         *)
(* directories are written by the staging alone and never once a          *)
(* subprocess has been called, the bundler is called in the build phase   *)
(* and the archiver in the archive phase only, and every bundler call     *)
(* comes before every archiver call.                                      *)
C6_PhaseOrder ==
    [][ /\ Rank(pc') >= Rank(pc)
        /\ pc \in {"manifest", "select", "stage"} => Rank(pc') > Rank(pc)
        /\ pc # "manifest" =>
              (product_name' = product_name /\ product_version' = product_version)
        /\ pc # "select" => packages' = packages
        /\ pc # "stage" => (tempapp' = tempapp /\ dirs' = dirs)
        /\ calls # <<>> => (tempapp' = tempapp /\ dirs' = dirs)
        /\ calls' # calls =>
              /\ Len(calls') = Len(calls) + 1
              /\ SubSeq(calls', 1, Len(calls)) = calls
              /\ calls'[Len(calls')].tool = "npm" => pc = "build"
              /\ IsArchiver(calls'[Len(calls')]) => pc = "zip"
        /\ \A a, b \in 1..Len(calls') :
              (a < b /\ IsArchiver(calls'[a])) => IsArchiver(calls'[b])
      ]_vars

\* A run that built and archived two platforms or more and came to its end.
C6_Witness ==
    /\ pc = "done"
    /\ Len(packages) >= 2
    /\ BundlerPacks = packages
    /\ ArchiverPacks = packages
    /\ Staged

\* The platform identifier as the archive shows it: the family darwin is
\* written macos.
Display(P) ==
    IF Len(P) >= Len(darwin) /\ SubSeq(P, 1, Len(darwin)) = darwin
    THEN macos \o SubSeq(P, Len(darwin) + 1, Len(P))
    ELSE P

\* The archive <name>-<version>-<display-platform>.<ext> of platform P.
Artifact(P) ==
    product_name \o dash \o product_version \o dash \o Display(P)
        \o (IF Occurs(darwin, P) THEN dmg ELSE zip)

\* The file a shell command writes, from the directory the run started in:
\* the shell has changed to c.cd when that directory exists, and resolves
\* ../ against it.
Target(c) ==
    IF c.cd = NoCd \/ (c.cd # dist /\ ~bundle[c.pack].exists) THEN c.out
    ELSE IF Len(c.out) >= 3 /\ SubSeq(c.out, 1, 3) = up
    THEN PathSplit(c.cd)[1] \o slash \o SubSeq(c.out, 4, Len(c.out))
    ELSE c.cd \o slash \o c.out

(* C7: in a run with build and archive both enabled, every selected       *)
(* platform gets exactly one bundler call and exactly one archiver call,  *)
(* both in the order of the selection, and the archiver writes one        *)
(* artifact per selected platform inside dist.                            *)
C7_OnePerPlatform ==
    (Ended /\ SelectionMade /\ packages # <<>> /\ BuildEnabled /\ ZipEnabled) =>
        /\ BundlerPacks = packages
        /\ ArchiverPacks = packages
        /\ \A k \in 1..Len(calls) :
              IsArchiver(calls[k]) =>
                  Target(calls[k]) = dist \o slash \o Artifact(calls[k].pack)

(* C8: the archive the archiver names is <name>-<version>-<D>, D being    *)
(* the platform identifier with its family darwin written macos, with the *)
(* extension dmg on the disk-image branch and zip otherwise; the zip is   *)
(* unwrapped exactly for the platforms whose identifier contains win32.   *)
C8_ArchiveName ==
    \A k \in 1..Len(calls) :
        IsArchiver(calls[k]) =>
            LET c == calls[k]
            IN  /\ PathSplit(c.out)[2] =
                      product_name \o dash \o product_version \o dash \o Display(c.pack)
                          \o (IF c.tool = "appdmg" THEN dmg ELSE zip)
                /\ c.tool = "zip" => (c.arg = Star <=> Occurs(win32, c.pack))

(* C9: the archiver takes the disk-image branch, whatever the product     *)
(* name and version, exactly when the platform identifier contains        *)
(* darwin; for the linux and win32 platforms it is the zip tool that is   *)
(* called.                                                                *)
C9_BranchByPlatform ==
    \A k \in 1..Len(calls) :
        IsArchiver(calls[k]) =>
            (calls[k].tool = "appdmg" <=> Occurs(darwin, calls[k].pack))

\* The part of path d after its last slash.
Base(d) ==
    LET k == CHOOSE k \in 0..Len(d) :
                 /\ k = 0 \/ d[k] = "/"
                 /\ \A j \in (k + 1)..Len(d) : d[j] # "/"
    IN  SubSeq(d, k + 1, Len(d))

\* The base name of d starts with <product-name>-.
NameFits(d) ==
    LET prefix == product_name \o dash
    IN  \A t \in 1..Len(prefix) : t <= Len(Base(d)) /\ Base(d)[t] = prefix[t]

(* C10: when makezip is given a directory whose base name does not start  *)
(* with <product-name>-, the call ends the run with the error "path does  *)
(* not have the prefix" and runs no subprocess: nothing is deleted and    *)
(* nothing is archived for that directory.                                *)
C10_PrefixCheck ==
    [][ ( /\ pc = "makezip" \/ (pc = "zip" /\ ZipEnabled /\ i <= Len(packages))
          /\ ~NameFits(zarg'.dir) )
        => /\ pc' = "error"
           /\ err' = "path does not have the prefix"
           /\ calls' = calls
      ]_vars

\* The bundle directory Bar-win32-x64 with the product name Foo.
C10_Witness ==
    /\ pc = "error"
    /\ product_name = Foo
    /\ zarg.dir = Dest(Bar, all_packages[5])
    /\ calls = <<>>

\* A round of the build loop is taken: builddir is called for packages[i].
BuildRound == pc = "build" /\ BuildEnabled /\ i <= Len(packages)

(* C11: builddir removes the version file only when it is there: in a     *)
(* round where the bundler has run and the root files have been overlaid, *)
(* a missing version file is no error, and the run goes on with the next  *)
(* platform.                                                              *)
C11_VersionOptional ==
    [][ (BuildRound /\ bundle'[packages[i]].rootfiles)
        => (err' = "none" /\ pc' = "build" /\ i' = i + 1)
      ]_vars

(* C12: a non-zero exit status of the bundler does not end the run: the   *)
(* root files are still overlaid for that platform and the build loop     *)
(* goes on with the next one.                                             *)
C12_BundlerFailureGoesOn ==
    [][ (BuildRound /\ rc' = 1)
        => (bundle'[packages[i]].rootfiles /\ err' = "none" /\ pc' = "build" /\ i' = i + 1)
      ]_vars

\* package.json is missing, is no JSON, or lacks one of the two keys.
BadManifest ==
    \/ pkgfile.state # "ok"
    \/ ~({"version", "productName"} \subseteq pkgfile.keys)

(* C13: when package.json is missing, malformed or lacks the version or   *)
(* the productName key, the run ends at the manifest read: no directory   *)
(* is made, no file is copied, no bundle is touched and no subprocess is  *)
(* called.                                                                *)
C13_ManifestAborts ==
    BadManifest =>
        /\ pc \in {"manifest", "error"}
        /\ pc = "error" => err \in {"FileNotFoundError", "JSONDecodeError", "KeyError"}
        /\ packages = <<>>
        /\ dirs = {}
        /\ NothingCopied
        /\ \A p \in Platforms : bundle[p] \in {NoBundle, BuiltBundle}
        /\ calls = <<>>

\* A default run on a package.json that has a version and no productName.
C13_Witness ==
    /\ pc = "error"
    /\ err = "KeyError"
    /\ pkgfile.state = "ok"
    /\ pkgfile.keys = {"version"}
    /\ doall
    /\ product_name = Unbound

(* C14: in every run that has come to the selection, the staging, the   *)
(* build or the archive, the product name and the version are both set    *)
(* and not empty: a package.json with an empty version or productName     *)
(* ends the run.                                                          *)
C14_MetadataNonEmpty ==
    pc \in {"select", "stage", "build", "zip", "done"} =>
        /\ product_name \notin {Unbound, <<>>}
        /\ product_version \notin {Unbound, <<>>}

(* C15: install is idempotent: a run of install on a destination that an *)
(* earlier run has staged, with the source tree as it was, leaves the     *)
(* tree as the earlier run left it, the same paths with the same          *)
(* contents, whatever the destination held before the first run; and      *)
(* after a run every staged path holds its source file.                   *)
C15_InstallIdempotent ==
    [][ /\ (pc = "install" /\ i >= 1) =>
              (tempapp' = tempapp /\ dirs' = dirs /\ err' = "none")
        /\ (pc' = "install" /\ i' >= 1) =>
              \A c \in InstallCopies("tempapp") :
                  c[1] \in DOMAIN tempapp' /\ tempapp'[c[1]] = c[2]
      ]_vars

\* install has run twice on a destination that held an older main.js and a
\* file that is not staged any more; the stray file is still there.
C15_Witness ==
    /\ pc = "install"
    /\ i = 2
    /\ "tempapp/old.js" \in DOMAIN tempapp
    /\ tempapp["tempapp/old.js"] = "stale"
    /\ tempapp["tempapp/./main.js"] = "./main.js"

\* One round of the zip loop is about to run.
ZipRound == pc = "zip" /\ ZipEnabled /\ i <= Len(packages)

(* C16: the exit status of the archiving tool is not looked at: a round   *)
(* of the zip loop whose tool exits with a non-zero status returns        *)
(* normally and the loop goes on to the next selected platform; and a     *)
(* run whose archive phase has run a tool ends normally with one archiver *)
(* call for each selected platform, in order, whatever the statuses were. *)
C16_ArchiverStatusIgnored ==
    /\ [][ (ZipRound /\ calls' # calls /\ rc' = 1)
              => (err' = "none" /\ pc' = "zip" /\ i' = i + 1
                  /\ ArchiverPacks' = Append(ArchiverPacks, packages[i])) ]_vars
    /\ [] ( (Ended /\ ArchiverPacks # <<>>) =>
               (pc = "done" /\ err = "none" /\ ArchiverPacks = packages) )

\* The archiver of the second of three platforms has failed and the loop
\* stands at the third.
C16_Witness ==
    /\ pc = "zip"
    /\ i = 3
    /\ Len(packages) >= 3
    /\ rc = 1
    /\ Len(ArchiverPacks) = 2

\* The product name and version are plain: not empty, without a path
\* separator, and without the word darwin in them.
PlainMetadata ==
    /\ product_name \notin {Unbound, <<>>}
    /\ product_version \notin {Unbound, <<>>}
    /\ ~Occurs(slash, product_name) /\ ~Occurs(slash, product_version)
    /\ ~Occurs(darwin, product_name) /\ ~Occurs(darwin, product_version)

(* C17: with a plain product name and version, in every archiver command  *)
(* the file deleted is the file the tool is then told to create, and that *)
(* file is <name>-<version>-<display-platform>.<ext> directly inside      *)
(* dist: the command deletes no file anywhere else.                       *)
C17_DeletesItsOwnArchive ==
    PlainMetadata =>
        \A k \in 1..Len(calls) :
            IsArchiver(calls[k]) =>
                /\ calls[k].rm = calls[k].out
                /\ Target(calls[k]) = dist \o slash \o Artifact(calls[k].pack)

(* C18: nothing the loops depend on changes from one platform to the     *)
(* next: a round of the build loop or of the zip loop leaves the working  *)
(* directory of the script's own process, the product name and version,   *)
(* the selected platforms and the mode flags and filters as they were,    *)
(* so the relative path dist/<name>-<platform> of every platform is       *)
(* resolved against the directory the script was started in.              *)
C18_NoCarryOver ==
    [][ (BuildRound \/ ZipRound) =>
            /\ cwd' = cwd
            /\ cwd' = <<".">>
            /\ product_name' = product_name
            /\ product_version' = product_version
            /\ packages' = packages
            /\ opts' = opts
            /\ args' = args
            /\ ZipRound => zarg'.dir = Dest(product_name, packages[i])
      ]_vars

\* Two platforms were built and then archived by zip commands that change
\* directory; the script is still where it started.
C18_Witness ==
    /\ pc = "done"
    /\ Len(BundlerPacks) >= 2
    /\ Len(ArchiverPacks) >= 2
    /\ \A k \in 1..Len(calls) : IsArchiver(calls[k]) => calls[k].cd # NoCd
    /\ cwd = <<".">>

(* C19: in a run whose product name holds no path separator, every round *)
(* of the zip loop passes makezip the directory                           *)
(* dist/<product-name>-<platform> of the platform the loop is at; its     *)
(* base name starts with <product-name>-, so the prefix check passes, the *)
(* error "path does not have the prefix" never ends such a run, the       *)
(* archiver is called, and what follows the prefix is the platform        *)
(* identifier itself.                                                     *)
C19_PrefixAlwaysFits ==
    /\ [][ (ZipRound /\ ~Occurs(slash, product_name)) =>
              /\ zarg'.dir = dist \o slash \o product_name \o dash \o packages[i]
              /\ NameFits(zarg'.dir)
              /\ SliceFrom(Base(zarg'.dir), Len(product_name \o dash)) = packages[i]
              /\ err' = "none"
              /\ calls' # calls
              /\ calls'[Len(calls')].pack = packages[i]
         ]_vars
    /\ [] ( ~Occurs(slash, product_name) => err # "path does not have the prefix" )

\* All five platforms were archived for the product name App, the last of
\* them from dist/App-win32-x64.
C19_Witness ==
    /\ pc = "done"
    /\ product_name = App
    /\ Len(packages) = 5
    /\ ArchiverPacks = packages
    /\ zarg.dir = dist \o slash \o App \o dash \o packages[5]

====
